---- MODULE Spec2Model ----
(***************************************************************************)
(* A model of rxns-book/mole-balance.ipynb: ten code cells that share one  *)
(* kernel namespace.  A cell is one action: it performs the cell's         *)
(* assignments in order on the namespace, calls the numerical routine the  *)
(* cell calls, and records what the cell prints.  Cells may be run in any  *)
(* order and any number of times.                                          *)
(*                                                                         *)
(* Python floats are modelled as decimal fixed-point numbers with SCALE    *)
(* units per 1.0, rounded to nearest after every multiplication and        *)
(* division.  The library routines the notebook imports (fsolve, odeint,   *)
(* quad, interp1d, odelay, ufloat) are not part of the repository; they    *)
(* are modelled as deterministic algorithms of the same family.            *)
(***************************************************************************)
EXTENDS Integers, Sequences, FiniteSets, TLC

(***************************************************************************)
(* Fixed-point arithmetic.                                                 *)
(***************************************************************************)
SCALE == 1000000
LIMB == 1000

Abs(a) == IF a < 0 THEN -a ELSE a
Sgn(a) == IF a < 0 THEN -1 ELSE IF a > 0 THEN 1 ELSE 0

\* |a| * |b| / SCALE rounded to nearest, by three-limb long multiplication so
\* that no intermediate exceeds the result's own magnitude.
MulAbs(a, b) ==
    LET ah == a \div LIMB
        al == a % LIMB
        bh == b \div LIMB
        bl == b % LIMB
    IN  ah * bh + ((ah * bl + al * bh + ((al * bl + (SCALE \div 2)) \div LIMB)) \div LIMB)

\* The float product a * b.
FMul(a, b) == Sgn(a) * Sgn(b) * MulAbs(Abs(a), Abs(b))

RECURSIVE DivDigits(_, _, _, _)
\* Decimal long division of the remainder r by b: n more digits, then round.
DivDigits(r, b, n, acc) ==
    IF n = 1
    THEN acc + (IF 2 * r >= b THEN 1 ELSE 0)
    ELSE DivDigits((r * 10) % b, b, n \div 10, acc * 10 + ((r * 10) \div b))

\* The float quotient a / b (b # 0).
FDiv(a, b) ==
    Sgn(a) * Sgn(b) *
        DivDigits(Abs(a) % Abs(b), Abs(b), SCALE, Abs(a) \div Abs(b))

\* An integer literal as a float.
Flt(n) == n * SCALE

\* round(x, d) for d decimals, as format(x, '1.<d>f') prints it; unit is
\* SCALE / 10^d.
RoundTo(x, unit) == Sgn(x) * (((Abs(x) + (unit \div 2)) \div unit) * unit)

\* a / n for a float a and a positive integer n, rounded to nearest.
IDiv(a, n) == Sgn(a) * ((Abs(a) + (n \div 2)) \div n)

\* (a * i) / n for integers 0 <= i <= n, without forming a * i beyond a.
Frac(a, i, n) == (a \div n) * i + (((a % n) * i) \div n)

Max(a, b) == IF a >= b THEN a ELSE b

\* F applied to the value of x: names an intermediate result that is used
\* more than once.
Let(x, F(_)) == F(x)

(***************************************************************************)
(* Values bound to names of the kernel namespace.                          *)
(***************************************************************************)
Unset == [t |-> "unset", v |-> 0, s |-> 0, a |-> << >>]
Float(x) == [t |-> "float", v |-> x, s |-> 0, a |-> << >>]
UFloat(n, sd) == [t |-> "ufloat", v |-> n, s |-> sd, a |-> << >>]
Array(seq) == [t |-> "array", v |-> 0, s |-> 0, a |-> seq]

Names ==
    {"k", "Fa0", "v0", "V", "Ca_exit", "guess", "ans", "Cae", "Ca0", "tspan",
     "sol", "Vspan", "Fa_exit", "nu", "Fa", "Fa_Exit", "F", "TE", "YE", "IE",
     "interp_x", "interp_y", "V_sol"}

DefNames == {"func", "ode", "integrand1", "integrand2", "event1", "objective"}

Modules == {"fsolve", "u", "np", "odeint", "plt", "quad", "odelay", "org", "interp1d"}

\* The namespace of a freshly started kernel.
EmptyNS ==
    [val |-> [n \in Names |-> Unset],
     defs |-> [d \in DefNames |-> "unbound"],
     imports |-> {}]

\* Every name in S is bound to a float in namespace n (a read of any other
\* raises NameError or TypeError in the cell).
Floats(n, S) == \A x \in S : n.val[x].t = "float"
Defined(n, D) == \A d \in D : n.defs[d] # "unbound"
Imported(n, M) == M \subseteq n.imports

(***************************************************************************)
(* The functions the cells define.  Each reads the notebook's globals at   *)
(* the time it is called.                                                  *)
(***************************************************************************)
\* Variants of the cells' functions, each one slip away from the notebook's:
\* the properties at the end of the module tell them from the originals.
\* func with the generation term subtracted.
func_cstr_minus(n, Ca) ==
    LET ra == - FMul(n.val["k"].v, Ca)
        Fa == FMul(n.val["v0"].v, Ca)
    IN  n.val["Fa0"].v - Fa - FMul(n.val["V"].v, ra)

\* The batch ode producing A instead of consuming it.
ode_batch_plus(n, Ca, t) == FMul(n.val["k"].v, Ca)

\* integrand1 of the concentration-like quantity Fa + 1.
integrand1_shifted(n, Fa) == FDiv(SCALE, Fa + SCALE)

\* An event whose value never changes sign.
event1_plus(n, Fa, V) == Fa + n.val["Fa_Exit"].v

\* Cell 2: def func(Ca)
func_cstr(n, Ca) ==
    LET ra == - FMul(n.val["k"].v, Ca)
        Fa == FMul(n.val["v0"].v, Ca)
    IN  n.val["Fa0"].v - Fa + FMul(n.val["V"].v, ra)

\* Cells 4, 5: def ode(Ca, t)
ode_batch(n, Ca, t) == - FMul(n.val["k"].v, Ca)

\* Cells 6, 7, 9, 10: def ode(Fa, V)
ode_pfr(n, Fa, V) ==
    LET Ca == FDiv(Fa, n.val["v0"].v)
    IN  - FMul(n.val["k"].v, Ca)

\* The derivative function bound to the name ode.
CallOde(n, y, x) ==
    IF n.defs["ode"] = "ode_batch" THEN ode_batch(n, y, x) ELSE ode_pfr(n, y, x)

\* Cell 8: def integrand1(Fa), def integrand2(V)
integrand1(n, Fa) == FDiv(SCALE, Fa)
integrand2(n, V) == - FDiv(n.val["k"].v, n.val["nu"].v)

\* Cell 9: def event1(Fa, V), the value it returns (isterminal = True,
\* direction = 0).
event1(n, Fa, V) == Fa - n.val["Fa_Exit"].v

(***************************************************************************)
(* numpy.linspace(start, stop): NUM evenly spaced points, both ends        *)
(* included.                                                               *)
(***************************************************************************)
NUM == 50

linspace(start, stop) ==
    [i \in 1..NUM |-> start + Frac(stop - start, i - 1, NUM - 1)]

Last(seq) == seq[Len(seq)]

(***************************************************************************)
(* scipy.integrate.odeint(ode, y0, xs): the solution at each point of xs,  *)
(* the first row being y0.  Between two requested points the integrator    *)
(* takes classical Runge-Kutta steps under step-doubling error control:    *)
(* a step is accepted when one full step and two half steps agree within   *)
(* ATOL + |y| / RTOLINV, and is halved otherwise, at most MXHALVE times.   *)
(* A step still rejected at the deepest level is taken anyway and the      *)
(* integration is flagged unsuccessful (odeint then only warns).           *)
(***************************************************************************)
ATOL == 4
RTOLINV == 10000
MXHALVE == 8

rk4(n, y, x, h) ==
    Let(CallOde(n, y, x), LAMBDA k1 :
    Let(CallOde(n, y + FMul(IDiv(h, 2), k1), x + IDiv(h, 2)), LAMBDA k2 :
    Let(CallOde(n, y + FMul(IDiv(h, 2), k2), x + IDiv(h, 2)), LAMBDA k3 :
    Let(CallOde(n, y + FMul(h, k3), x + h), LAMBDA k4 :
        y + IDiv(FMul(h, k1 + 2 * k2 + 2 * k3 + k4), 6)))))

RECURSIVE advance(_, _, _, _, _)
\* Integrate from (x1, y) to x2: [y |-> the value at x2, ok |-> converged].
advance(n, y, x1, x2, depth) ==
    Let(x1 + IDiv(x2 - x1, 2), LAMBDA xm :
    Let(rk4(n, rk4(n, y, x1, xm - x1), xm, x2 - xm), LAMBDA half :
        IF Abs(rk4(n, y, x1, x2 - x1) - half) <= ATOL + (Abs(half) \div RTOLINV)
        THEN [y |-> half, ok |-> TRUE]
        ELSE IF depth = 0
        THEN [y |-> half, ok |-> FALSE]
        ELSE Let(advance(n, y, x1, xm, depth - 1), LAMBDA left :
             Let(advance(n, left.y, xm, x2, depth - 1), LAMBDA right :
                 [y |-> right.y, ok |-> left.ok /\ right.ok]))))

RECURSIVE odeint_rows(_, _, _, _, _)
\* Rows lo+1 .. hi of the solution, given row lo; by halves, the second half
\* starting from the last row of the first.
odeint_rows(n, xs, lo, hi, row) ==
    IF hi = lo
    THEN << >>
    ELSE IF hi = lo + 1
    THEN Let(advance(n, row.y, xs[lo], xs[hi], MXHALVE), LAMBDA nxt :
             <<[y |-> nxt.y, ok |-> row.ok /\ nxt.ok]>>)
    ELSE Let(odeint_rows(n, xs, lo, (lo + hi) \div 2, row), LAMBDA first :
             first \o odeint_rows(n, xs, (lo + hi) \div 2, hi, Last(first)))

\* [y |-> the rows, ok |-> every step converged]
odeint(n, y0, xs) ==
    Let(<<[y |-> y0, ok |-> TRUE]>> \o
            odeint_rows(n, xs, 1, Len(xs), [y |-> y0, ok |-> TRUE]),
        LAMBDA rows :
            [y |-> [i \in 1..Len(rows) |-> rows[i].y], ok |-> Last(rows).ok])

(***************************************************************************)
(* scipy.integrate.quad(integrand, a, b): composite Simpson rule on QUADN  *)
(* panels (QUADN even).                                                    *)
(***************************************************************************)
QUADN == 100

CallIntegrand(n, g, x) ==
    IF g = "integrand1" THEN integrand1(n, x) ELSE integrand2(n, x)

RECURSIVE simpson_sum(_, _, _, _, _, _)
\* The weighted sum of the integrand over nodes lo..hi, by halving the range.
simpson_sum(n, g, a, b, lo, hi) ==
    IF lo = hi
    THEN (IF lo = 0 \/ lo = QUADN THEN 1 ELSE IF lo % 2 = 1 THEN 4 ELSE 2)
             * CallIntegrand(n, g, a + Frac(b - a, lo, QUADN))
    ELSE simpson_sum(n, g, a, b, lo, (lo + hi) \div 2)
             + simpson_sum(n, g, a, b, ((lo + hi) \div 2) + 1, hi)

quad(n, g, a, b) ==
    FMul(b - a, IDiv(simpson_sum(n, g, a, b, 0, QUADN), 3 * QUADN))

\* func returning the sum of the two integrals.
func_quad_plus(n, V) ==
    quad(n, "integrand1", n.val["Fa0"].v, n.val["Fa"].v)
        + quad(n, "integrand2", 0, V)

\* Cell 8: def func(V)
func_quad(n, V) ==
    quad(n, "integrand1", n.val["Fa0"].v, n.val["Fa"].v)
        - quad(n, "integrand2", 0, V)

(***************************************************************************)
(* scipy.interpolate.interp1d(x, y, 'cubic'): a piecewise cubic through    *)
(* the grid points; here the cubic through the four grid points nearest    *)
(* the interval that holds V.  Evaluation outside the grid raises          *)
(* ValueError.                                                             *)
(***************************************************************************)
RECURSIVE lagrange_basis(_, _, _, _, _)
\* The product over nodes j in lo..lo+3, j # m, of (V - x[j]) / (x[m] - x[j]).
lagrange_basis(x, V, m, lo, j) ==
    IF j > lo + 3
    THEN SCALE
    ELSE IF j = m
    THEN lagrange_basis(x, V, m, lo, j + 1)
    ELSE FMul(FDiv(V - x[j], x[m] - x[j]), lagrange_basis(x, V, m, lo, j + 1))

RECURSIVE lagrange_sum(_, _, _, _, _)
\* The sum over nodes m in m..lo+3 of y[m] times its basis polynomial at V.
lagrange_sum(x, y, V, lo, m) ==
    IF m > lo + 3
    THEN 0
    ELSE FMul(y[m], lagrange_basis(x, V, m, lo, lo))
             + lagrange_sum(x, y, V, lo, m + 1)

interp_in_range(n, V) ==
    Let(n.val["interp_x"].a, LAMBDA x :
        Len(x) >= 4 /\ x[1] <= V /\ V <= x[Len(x)])

\* The first node of the four used for the interval x[c] <= V <= x[c + 1].
stencil(x, V) ==
    Let(Max(1, Cardinality({i \in 1..(Len(x) - 1) : x[i] <= V})), LAMBDA c :
        IF c = 1 THEN 1 ELSE IF c + 2 > Len(x) THEN Len(x) - 3 ELSE c - 1)

interp_func(n, V) ==
    Let(n.val["interp_x"].a, LAMBDA x :
        lagrange_sum(x, n.val["interp_y"].a, V, stencil(x, V), stencil(x, V)))

\* Cell 10: def objective(V)
objective_interp(n, V) == interp_func(n, V) - n.val["Fa_exit"].v

\* pycse.odelay's inner def objective(x): integrate from the last point
\* (env.xLt, env.fLt) to x and evaluate the event there.
objective_odelay(n, env, x) ==
    event1(n, odeint(n, env.fLt, <<env.xLt, x>>).y[2], x)

(***************************************************************************)
(* scipy.optimize.fsolve(f, x0): Newton iteration with a forward-          *)
(* difference derivative.  The difference step and the convergence test    *)
(* are relative, 1/XTOLINV of |x| (the square root of the float            *)
(* resolution, as MINPACK's are).  ier = 1: converged; 2: MAXFEV           *)
(* iterations without convergence; 5: no progress (zero slope); 0: the     *)
(* function raised.  fsolve without full_output returns x whatever ier is  *)
(* (it only warns).                                                        *)
(***************************************************************************)
XTOLINV == 1000
MAXFEV == 20

NoEnv == [xLt |-> 0, fLt |-> 0]

Call(f, n, env, x) ==
    CASE f = "func_cstr" -> func_cstr(n, x)
      [] f = "func_quad" -> func_quad(n, x)
      [] f = "objective_interp" -> objective_interp(n, x)
      [] OTHER -> objective_odelay(n, env, x)

\* The function's domain: a call outside it raises.
InDomain(f, n, x) ==
    CASE f = "objective_interp" -> interp_in_range(n, x)
      [] f = "func_quad" -> Abs(x) < 2000 * SCALE
      [] OTHER -> TRUE

\* The values of f at x and at x + h, h the forward-difference step.
fdpair(f, n, env, x, h) ==
    [i \in {0, 1} |-> Call(f, n, env, x + i * h)]

\* One Newton step from x, fx = f(x), with slope J.
newton(x, fx, J) == x - FDiv(fx, J)

RECURSIVE hybr(_, _, _, _, _)
hybr(f, n, env, x, it) ==
    Let(Max(1, Abs(x) \div XTOLINV), LAMBDA h :
        IF ~ (InDomain(f, n, x) /\ InDomain(f, n, x + h))
        THEN [x |-> x, ier |-> 0]
        ELSE Let(fdpair(f, n, env, x, h), LAMBDA fv :
             Let(FDiv(fv[1] - fv[0], h), LAMBDA J :
                 IF fv[0] = 0
                 THEN [x |-> x, ier |-> 1]
                 ELSE IF J = 0
                 THEN [x |-> x, ier |-> 5]
                 ELSE Let(newton(x, fv[0], J), LAMBDA x1 :
                          IF Abs(x1 - x) <= Max(1, Abs(x1) \div XTOLINV)
                          THEN [x |-> x1, ier |-> 1]
                          ELSE IF it >= MAXFEV
                          THEN [x |-> x1, ier |-> 2]
                          ELSE hybr(f, n, env, x1, it + 1)))))

fsolve(f, n, env, x0) == hybr(f, n, env, x0, 1)

(***************************************************************************)
(* pycse.odelay(ode, y0, xspan, events=[event1]): integrate from one       *)
(* point of xspan to the next; when the event value changes sign over a    *)
(* step, solve for the x where it is zero (integrating from the step's     *)
(* end point), and, the event being terminal, replace the step's end point *)
(* by the crossing and return.                                             *)
(***************************************************************************)
\* The crossing found from the end (x2, f2) of the step on which the event
\* changed sign.
odelay_event(n, acc, x2, f2) ==
    Let(fsolve("objective_odelay", n, [xLt |-> x2, fLt |-> f2], x2).x,
        LAMBDA xZ :
    Let(odeint(n, f2, <<x2, xZ>>).y[2], LAMBDA fZ :
        [X |-> Append(acc.X, xZ), F |-> Append(acc.F, fZ),
         TE |-> <<xZ>>, YE |-> <<fZ>>, IE |-> <<0>>, done |-> TRUE]))

\* The step from point i of xs to point i + 1.
odelay_step(n, xs, i, acc) ==
    Let(odeint(n, Last(acc.F), <<xs[i], xs[i + 1]>>).y[2], LAMBDA f2 :
        IF Sgn(event1(n, f2, xs[i + 1])) * Sgn(event1(n, Last(acc.F), xs[i])) < 0
        THEN odelay_event(n, acc, xs[i + 1], f2)
        ELSE [acc EXCEPT !.X = Append(acc.X, xs[i + 1]),
                         !.F = Append(acc.F, f2)])

RECURSIVE odelay_steps(_, _, _, _, _)
\* The steps from point lo to point hi of xs, by halves, unless a terminal
\* event has stopped the integration.
odelay_steps(n, xs, lo, hi, acc) ==
    IF acc.done \/ hi = lo
    THEN acc
    ELSE IF hi = lo + 1
    THEN odelay_step(n, xs, lo, acc)
    ELSE Let(odelay_steps(n, xs, lo, (lo + hi) \div 2, acc), LAMBDA first :
             odelay_steps(n, xs, (lo + hi) \div 2, hi, first))

odelay(n, y0, xs) ==
    odelay_steps(n, xs, 1, Len(xs),
                 [X |-> <<xs[1]>>, F |-> <<y0>>, TE |-> << >>, YE |-> << >>,
                  IE |-> << >>, done |-> FALSE])

(***************************************************************************)
(* uncertainties: a value with a standard deviation, propagated linearly   *)
(* through c * u, c + u and c / u for an exact number c.                   *)
(***************************************************************************)
umul(c, u) == UFloat(FMul(c, u.v), FMul(Abs(c), u.s))
uadd(c, u) == UFloat(c + u.v, u.s)
udiv(c, u) == UFloat(FDiv(c, u.v), FMul(FDiv(Abs(c), FMul(u.v, u.v)), u.s))

RECURSIVE magnitude(_, _)
\* The largest power of ten (times m) not above s, for s >= m.
magnitude(s, m) == IF s < 10 * m THEN m ELSE magnitude(s, 10 * m)

\* '{0}'.format(u): the standard deviation to the Particle Data Group's one
\* or two significant digits, the nominal value to the same decimal place.
uformat(u) ==
    Let(magnitude(Max(u.s, 100), 1), LAMBDA mag :
    Let(IF u.s \div (mag \div 100) <= 354 THEN mag \div 10 ELSE mag, LAMBDA unit :
        <<RoundTo(u.v, unit), RoundTo(u.s, unit)>>))

(***************************************************************************)
(* The notebook: one kernel namespace, what each code cell last printed,   *)
(* and the kernel's execution counter.                                     *)
(***************************************************************************)
VARIABLES ns, out, execution_count

vars == <<ns, out, execution_count>>

\* Cell executions in one kernel session.
MaxRuns == 3

Cells ==
    {"cstr_algebra", "cstr_fsolve", "cstr_uncertainty", "batch", "batch_plot",
     "pfr", "pfr_plot", "pfr_quad", "pfr_odelay", "pfr_interp"}

\* A cell's output area: st is "none" before the cell has run, "ok" when it
\* ran to its end, "error" when it raised; p the numbers it printed, as
\* printed; r the values its solver returned; ier the solver's status
\* (1: success).
NoOutput == [st |-> "none", p |-> << >>, r |-> << >>, ier |-> 1]
Raised == [st |-> "error", p |-> << >>, r |-> << >>, ier |-> 1]
Printed(p, r, ier) == [st |-> "ok", p |-> p, r |-> r, ier |-> ier]

Bind(n, name, value) == [n EXCEPT !.val[name] = value]
Def(n, name, f) == [n EXCEPT !.defs[name] = f]
Import(n, M) == [n EXCEPT !.imports = @ \cup M]

\* A cell stopped by an exception: the bindings made so far stay.
Raise(n) == [ns |-> n, o |-> Raised]

\* Running cell c with result r: the namespace it leaves and what it shows.
Step(c, r) ==
    /\ execution_count < MaxRuns
    /\ ns' = r.ns
    /\ out' = [out EXCEPT ![c] = r.o]
    /\ execution_count' = execution_count + 1

Init ==
    /\ ns = EmptyNS
    /\ out = [c \in Cells |-> NoOutput]
    /\ execution_count = 0

(***************************************************************************)
(* Cell 1: solving the CSTR with algebra.                                  *)
(***************************************************************************)
CstrAlgebraAssign(n) ==
    Bind(Bind(Bind(Bind(n, "k", Float(230000)), "Fa0", Float(1000000)),
              "v0", Float(2500000)), "V", Float(Flt(10)))

\* Ca_exit = Fa0 / (v0 + V * k)
CstrAlgebraCell(n) ==
    IF ~ Floats(n, {"k", "Fa0", "v0", "V"})
    THEN Raise(n)
    ELSE Let(FDiv(n.val["Fa0"].v, n.val["v0"].v + FMul(n.val["V"].v, n.val["k"].v)),
             LAMBDA Ca_exit :
                 [ns |-> Bind(n, "Ca_exit", Float(Ca_exit)),
                  o |-> Printed(<<RoundTo(Ca_exit, 1000)>>, <<Ca_exit>>, 1)])

CstrAlgebra == Step("cstr_algebra", CstrAlgebraCell(CstrAlgebraAssign(ns)))

(***************************************************************************)
(* Cell 2: solving the CSTR with fsolve.                                   *)
(***************************************************************************)
\* The cell without its assignment to k.
CstrFsolveAssignNoK(n) ==
    Bind(Def(Bind(Bind(Bind(Import(n, {"fsolve"}),
                            "Fa0", Float(1000000)), "v0", Float(2500000)),
                  "V", Float(Flt(10))),
             "func", "func_cstr"),
         "guess", Float(1000000))

CstrFsolveAssign(n) ==
    Bind(Def(Bind(Bind(Bind(Bind(Import(n, {"fsolve"}), "k", Float(230000)),
                            "Fa0", Float(1000000)), "v0", Float(2500000)),
                  "V", Float(Flt(10))),
             "func", "func_cstr"),
         "guess", Float(1000000))

\* ans, = fsolve(func, guess)
CstrFsolveCell(n) ==
    IF ~ (/\ Imported(n, {"fsolve"})
          /\ Defined(n, {"func"})
          /\ Floats(n, {"guess", "k", "Fa0", "v0", "V"}))
    THEN Raise(n)
    ELSE Let(fsolve(n.defs["func"], n, NoEnv, n.val["guess"].v), LAMBDA res :
             IF res.ier = 0
             THEN Raise(n)
             ELSE [ns |-> Bind(n, "ans", Float(res.x)),
                   o |-> Printed(<<res.x>>, <<res.x>>, res.ier)])

CstrFsolve == Step("cstr_fsolve", CstrFsolveCell(CstrFsolveAssign(ns)))

(***************************************************************************)
(* Cell 3: the CSTR with an uncertain rate constant.                       *)
(***************************************************************************)
\* The cell with k = u.ufloat(0.23, 0.2).
CstrUncertaintyAssignWide(n) ==
    Bind(Bind(Bind(Bind(Import(n, {"u"}), "k", UFloat(230000, 200000)),
                   "Fa0", Float(1000000)), "v0", Float(2500000)),
         "V", Float(Flt(10)))

CstrUncertaintyAssign(n) ==
    Bind(Bind(Bind(Bind(Import(n, {"u"}), "k", UFloat(230000, 100000)),
                   "Fa0", Float(1000000)), "v0", Float(2500000)),
         "V", Float(Flt(10)))

\* Cae = Fa0 / (v0 + V * k)
CstrUncertaintyCell(n) ==
    IF ~ (/\ Imported(n, {"u"})
          /\ Floats(n, {"Fa0", "v0", "V"})
          /\ n.val["k"].t = "ufloat")
    THEN Raise(n)
    ELSE Let(udiv(n.val["Fa0"].v,
                  uadd(n.val["v0"].v, umul(n.val["V"].v, n.val["k"]))),
             LAMBDA Cae :
                 [ns |-> Bind(n, "Cae", Cae),
                  o |-> Printed(uformat(Cae), <<Cae.v, Cae.s>>, 1)])

CstrUncertainty ==
    Step("cstr_uncertainty", CstrUncertaintyCell(CstrUncertaintyAssign(ns)))

(***************************************************************************)
(* Cell 4: the batch reactor after one hour.                               *)
(***************************************************************************)
\* The cell without its assignment to k.
BatchAssignNoK(n) ==
    Bind(Def(Bind(Import(n, {"np", "odeint"}), "Ca0", Float(2000000)),
             "ode", "ode_batch"),
         "tspan", Array(linspace(0, Flt(1))))

\* The cell with tspan = np.linspace(1, 0).
BatchAssignReversed(n) ==
    Bind(Def(Bind(Bind(Import(n, {"np", "odeint"}), "k", Float(230000)),
                  "Ca0", Float(2000000)),
             "ode", "ode_batch"),
         "tspan", Array(linspace(Flt(1), 0)))

BatchAssign(n) ==
    Bind(Def(Bind(Bind(Import(n, {"np", "odeint"}), "k", Float(230000)),
                  "Ca0", Float(2000000)),
             "ode", "ode_batch"),
         "tspan", Array(linspace(0, Flt(1))))

\* The cell from the return of odeint on: binds sol, prints sol.shape and
\* sol[-1, 0].  odeint without full_output returns the array whether or not
\* the integration succeeded (it only warns).
BatchShow(n, sol) ==
    [ns |-> Bind(n, "sol", Array(sol.y)),
     o |-> Printed(<<Len(sol.y), 1, Last(sol.y)>>, sol.y,
                   IF sol.ok THEN 1 ELSE 2)]

\* sol = odeint(ode, Ca0, tspan); prints sol.shape and sol[-1, 0]
BatchCell(n) ==
    IF ~ (/\ Imported(n, {"np", "odeint"})
          /\ Defined(n, {"ode"})
          /\ Floats(n, {"k", "Ca0"}))
    THEN Raise(n)
    ELSE BatchShow(n, odeint(n, n.val["Ca0"].v, n.val["tspan"].a))

Batch == Step("batch", BatchCell(BatchAssign(ns)))

(***************************************************************************)
(* Cell 5: plotting C_A against time in the batch reactor.                 *)
(***************************************************************************)
\* The cell with k = -0.23.
BatchPlotAssignGrowth(n) ==
    Bind(Def(Bind(Bind(Import(n, {"np", "odeint", "plt"}), "k", Float(-230000)),
                  "Ca0", Float(2000000)),
             "ode", "ode_batch"),
         "tspan", Array(linspace(0, Flt(1))))

BatchPlotAssign(n) ==
    Bind(Def(Bind(Bind(Import(n, {"np", "odeint", "plt"}), "k", Float(230000)),
                  "Ca0", Float(2000000)),
             "ode", "ode_batch"),
         "tspan", Array(linspace(0, Flt(1))))

\* sol = odeint(ode, Ca0, tspan); prints tspan.shape and sol.shape
BatchPlotCell(n) ==
    IF ~ (/\ Imported(n, {"np", "odeint", "plt"})
          /\ Defined(n, {"ode"})
          /\ Floats(n, {"k", "Ca0"}))
    THEN Raise(n)
    ELSE Let(odeint(n, n.val["Ca0"].v, n.val["tspan"].a), LAMBDA sol :
             [ns |-> Bind(n, "sol", Array(sol.y)),
              o |-> Printed(<<Len(n.val["tspan"].a), Len(sol.y), 1>>, sol.y,
                            IF sol.ok THEN 1 ELSE 2)])

BatchPlot == Step("batch_plot", BatchPlotCell(BatchPlotAssign(ns)))

(***************************************************************************)
(* Cell 6: the exit concentration of a 100 L plug flow reactor.            *)
(***************************************************************************)
\* The cell with Vspan = [0, 10].
PfrAssignShort(n) ==
    Bind(Def(Bind(Bind(Bind(Import(n, {"odeint"}), "Ca0", Float(3000000)),
                       "v0", Float(Flt(10))), "k", Float(230000)),
             "ode", "ode_pfr"),
         "Vspan", Array(<<0, Flt(10)>>))

PfrAssign(n) ==
    Bind(Def(Bind(Bind(Bind(Import(n, {"odeint"}), "Ca0", Float(3000000)),
                       "v0", Float(Flt(10))), "k", Float(230000)),
             "ode", "ode_pfr"),
         "Vspan", Array(<<0, Flt(100)>>))

\* The cell from the return of odeint on: binds sol and Fa_exit =
\* sol[-1, 0], prints Fa_exit / v0 to four decimals.
PfrShow(n, sol) ==
    [ns |-> Bind(Bind(n, "sol", Array(sol.y)), "Fa_exit", Float(Last(sol.y))),
     o |-> Printed(<<RoundTo(FDiv(Last(sol.y), n.val["v0"].v), 100)>>,
                   sol.y, IF sol.ok THEN 1 ELSE 2)]

\* sol = odeint(ode, Ca0 * v0, Vspan); Fa_exit = sol[-1, 0]; prints
\* Fa_exit / v0 to four decimals
PfrCell(n) ==
    IF ~ (/\ Imported(n, {"odeint"})
          /\ Defined(n, {"ode"})
          /\ Floats(n, {"k", "Ca0", "v0"}))
    THEN Raise(n)
    ELSE PfrShow(n, odeint(n, FMul(n.val["Ca0"].v, n.val["v0"].v),
                           n.val["Vspan"].a))

Pfr == Step("pfr", PfrCell(PfrAssign(ns)))

(***************************************************************************)
(* Cell 7: plotting F_A against volume in the plug flow reactor.           *)
(***************************************************************************)
PfrPlotAssign(n) ==
    Bind(Def(Bind(Bind(Bind(Import(n, {"np", "odeint", "plt"}),
                            "Ca0", Float(3000000)),
                       "v0", Float(Flt(10))), "k", Float(230000)),
             "ode", "ode_pfr"),
         "Vspan", Array(linspace(0, Flt(200))))

\* sol = odeint(ode, Ca0 * v0, Vspan); prints nothing
PfrPlotCell(n) ==
    IF ~ (/\ Imported(n, {"np", "odeint", "plt"})
          /\ Defined(n, {"ode"})
          /\ Floats(n, {"k", "Ca0", "v0"}))
    THEN Raise(n)
    ELSE Let(odeint(n, FMul(n.val["Ca0"].v, n.val["v0"].v), n.val["Vspan"].a),
             LAMBDA sol :
                 [ns |-> Bind(n, "sol", Array(sol.y)),
                  o |-> Printed(<< >>, sol.y, IF sol.ok THEN 1 ELSE 2)])

PfrPlot == Step("pfr_plot", PfrPlotCell(PfrPlotAssign(ns)))

(***************************************************************************)
(* Cell 8: the reactor volume by quadrature and fsolve.                    *)
(***************************************************************************)
PfrQuadAssign(n) ==
    Let(Bind(Bind(Bind(Import(n, {"quad", "fsolve"}), "k", Float(230000)),
                  "nu", Float(Flt(10))), "Ca0", Float(3000000)),
        LAMBDA a :
            Bind(Def(Def(Def(Bind(Bind(a, "Fa0",
                                       Float(FMul(a.val["Ca0"].v, a.val["nu"].v))),
                                  "Fa", Float(FMul(300000, a.val["nu"].v))),
                             "integrand1", "integrand1"),
                         "integrand2", "integrand2"),
                     "func", "func_quad"),
                 "guess", Float(Flt(120))))

\* sol = fsolve(func, guess); prints float(sol) to two decimals
PfrQuadCell(n) ==
    IF ~ (/\ Imported(n, {"quad", "fsolve"})
          /\ Defined(n, {"func", "integrand1", "integrand2"})
          /\ Floats(n, {"k", "nu", "Fa0", "Fa", "guess"}))
    THEN Raise(n)
    ELSE Let(fsolve(n.defs["func"], n, NoEnv, n.val["guess"].v), LAMBDA sol :
             IF sol.ier = 0
             THEN Raise(n)
             ELSE [ns |-> Bind(n, "sol", Array(<<sol.x>>)),
                   o |-> Printed(<<RoundTo(sol.x, 10000)>>, <<sol.x>>, sol.ier)])

PfrQuad == Step("pfr_quad", PfrQuadCell(PfrQuadAssign(ns)))

(***************************************************************************)
(* Cell 9: the reactor volume by an event that stops the integration.      *)
(***************************************************************************)
PfrOdelayAssign(n) ==
    Let(Bind(Bind(Bind(Import(n, {"np", "odelay"}), "Ca0", Float(3000000)),
                  "v0", Float(Flt(10))), "k", Float(230000)),
        LAMBDA a :
            Bind(Def(Def(Bind(a, "Fa_Exit", Float(FMul(300000, a.val["v0"].v))),
                         "ode", "ode_pfr"),
                     "event1", "event1"),
                 "Vspan", Array(linspace(0, Flt(200)))))

\* V, F, TE, YE, IE = odelay(ode, Ca0 * v0, Vspan, events=[event1]); prints
\* V[-1]
PfrOdelayCell(n) ==
    IF ~ (/\ Imported(n, {"np", "odelay"})
          /\ Defined(n, {"ode", "event1"})
          /\ Floats(n, {"k", "Ca0", "v0", "Fa_Exit"}))
    THEN Raise(n)
    ELSE Let(odelay(n, FMul(n.val["Ca0"].v, n.val["v0"].v), n.val["Vspan"].a),
             LAMBDA res :
                 [ns |-> Import(Bind(Bind(Bind(Bind(Bind(n, "V", Array(res.X)),
                                                    "F", Array(res.F)),
                                               "TE", Array(res.TE)),
                                          "YE", Array(res.YE)),
                                     "IE", Array(res.IE)),
                                {"plt", "org"}),
                  o |-> Printed(<<Last(res.X)>>, res.X, 1)])

PfrOdelay == Step("pfr_odelay", PfrOdelayCell(PfrOdelayAssign(ns)))

(***************************************************************************)
(* Cell 10: the reactor volume by interpolating the grid solution.         *)
(***************************************************************************)
PfrInterpAssign(n) ==
    Bind(Def(Bind(Bind(Bind(Import(n, {"np", "odeint", "interp1d"}),
                            "Ca0", Float(3000000)),
                       "v0", Float(Flt(10))), "k", Float(230000)),
             "ode", "ode_pfr"),
         "Vspan", Array(linspace(0, Flt(200))))

\* From sol on: Ca_exit, Fa_exit = Ca_exit * v0, interp_func =
\* interp1d(Vspan, sol[:, 0], 'cubic'), def objective, import fsolve.
PfrInterpSetup(n, sol) ==
    Import(Def(Bind(Bind(Bind(Bind(Bind(n, "sol", Array(sol.y)),
                                   "Ca_exit", Float(300000)),
                              "Fa_exit", Float(FMul(300000, n.val["v0"].v))),
                         "interp_x", Array(n.val["Vspan"].a)),
                    "interp_y", Array(sol.y)),
               "objective", "objective_interp"),
           {"fsolve"})

\* V_sol = fsolve(objective, 100); prints float(V_sol)
PfrInterpSolve(n) ==
    Let(fsolve(n.defs["objective"], n, NoEnv, Flt(100)), LAMBDA V_sol :
        IF V_sol.ier = 0
        THEN Raise(n)
        ELSE [ns |-> Bind(n, "V_sol", Array(<<V_sol.x>>)),
              o |-> Printed(<<V_sol.x>>, <<V_sol.x>>, V_sol.ier)])

PfrInterpCell(n) ==
    IF ~ (/\ Imported(n, {"np", "odeint", "interp1d"})
          /\ Defined(n, {"ode"})
          /\ Floats(n, {"k", "Ca0", "v0"}))
    THEN Raise(n)
    ELSE PfrInterpSolve(
             PfrInterpSetup(n, odeint(n, FMul(n.val["Ca0"].v, n.val["v0"].v),
                                      n.val["Vspan"].a)))

PfrInterp == Step("pfr_interp", PfrInterpCell(PfrInterpAssign(ns)))

Next ==
    \/ CstrAlgebra
    \/ CstrFsolve
    \/ CstrUncertainty
    \/ Batch
    \/ BatchPlot
    \/ Pfr
    \/ PfrPlot
    \/ PfrQuad
    \/ PfrOdelay
    \/ PfrInterp

Spec == Init /\ [][Next]_vars

(***************************************************************************)
(* The notebook with its numbers edited.  The cells are examples to be     *)
(* re-run with other values: a cell runs as written except that the rate   *)
(* constant and the guess it assigns are drawn from the sets below (the    *)
(* notebook's own values among them).                                      *)
(***************************************************************************)
\* Cell executions in one session of edited cells.
MaxEdits == 2

\* k as written, k = 0 (no reaction) and k = -0.25 (for which v0 + V k = 0
\* in the CSTR).
EditK == {230000, 0, -250000}

\* The cell's assignments with k, and guess where the cell has one, edited.
Edited(n, k, guess) ==
    IF n.val["guess"].t = "float"
    THEN Bind(Bind(n, "k", Float(k)), "guess", Float(guess))
    ELSE Bind(n, "k", Float(k))

CstrFsolveEdited ==
    /\ execution_count < MaxEdits
    /\ \E k \in EditK, guess \in {Flt(1), 500000} :
          Step("cstr_fsolve",
               CstrFsolveCell(Edited(CstrFsolveAssign(ns), k, guess)))

PfrQuadEdited ==
    /\ execution_count < MaxEdits
    /\ \E k \in EditK, guess \in {Flt(120), Flt(100)} :
          Step("pfr_quad", PfrQuadCell(Edited(PfrQuadAssign(ns), k, guess)))

PfrInterpEdited ==
    /\ execution_count < MaxEdits
    /\ \E k \in {230000, 300000, 460000} :
          Step("pfr_interp",
               PfrInterpCell(Edited(PfrInterpAssign(ns), k, Flt(100))))

\* odeint stopped by its step control after evaluation point m: the rows
\* up to m are the solution, the rows after it are whatever the result array
\* held (g), and the integration is reported as failed.  m = Len(sol.y): the
\* integration as it went.
Truncated(sol, m, g) ==
    IF m >= Len(sol.y)
    THEN sol
    ELSE [y |-> [i \in 1..Len(sol.y) |-> IF i <= m THEN sol.y[i] ELSE g],
          ok |-> FALSE]

\* The batch cell, its assignments made, with odeint stopping after point m.
BatchRun(n, m, g) ==
    BatchShow(n, Truncated(odeint(n, n.val["Ca0"].v, n.val["tspan"].a), m, g))

\* The batch cell with odeint stopping at any of a few evaluation points.
BatchTruncated ==
    /\ execution_count < MaxEdits
    /\ \E m \in {1, NUM \div 2, NUM}, g \in {0, Flt(2)} :
          Step("batch", BatchRun(BatchAssign(ns), m, g))

\* The PFR cell, its assignments made, with odeint stopping after point m.
PfrRun(n, m, g) ==
    PfrShow(n, Truncated(odeint(n, FMul(n.val["Ca0"].v, n.val["v0"].v),
                                n.val["Vspan"].a), m, g))

\* The PFR cell with odeint stopping at either evaluation point.
PfrTruncated ==
    /\ execution_count < MaxEdits
    /\ \E m \in {1, 2}, g \in {0, Flt(30)} :
          Step("pfr", PfrRun(PfrAssign(ns), m, g))

NextEdited ==
    \/ CstrFsolveEdited
    \/ PfrQuadEdited
    \/ PfrInterpEdited
    \/ BatchTruncated
    \/ PfrTruncated

SpecEdited == Init /\ [][NextEdited]_vars

(***************************************************************************)
(* Reference values for the properties below.                              *)
(***************************************************************************)
\* |a - b| <= |b| / relinv: a equals b within relative tolerance 1/relinv.
Close(a, b, relinv) == Abs(a - b) <= Abs(b) \div relinv

RECURSIVE exp_terms(_, _, _)
\* term + term * x / n + term * x^2 / (n (n + 1)) + ...
exp_terms(x, term, n) ==
    IF term = 0 THEN 0 ELSE term + exp_terms(x, IDiv(FMul(term, x), n), n + 1)

\* exp(x) and exp(-x) for x >= 0, by the power series.
Exp(x) == exp_terms(x, SCALE, 1)
ExpNeg(x) == FDiv(SCALE, Exp(x))

Ran(c) == out[c].st # "none"
Ok(c) == out[c].st = "ok"

\* What each cell shows when it is the only cell run in a fresh kernel.
FreshOut ==
    [c \in Cells |->
        CASE c = "cstr_algebra" -> CstrAlgebraCell(CstrAlgebraAssign(EmptyNS)).o
          [] c = "cstr_fsolve" -> CstrFsolveCell(CstrFsolveAssign(EmptyNS)).o
          [] c = "cstr_uncertainty" ->
                 CstrUncertaintyCell(CstrUncertaintyAssign(EmptyNS)).o
          [] c = "batch" -> BatchCell(BatchAssign(EmptyNS)).o
          [] c = "batch_plot" -> BatchPlotCell(BatchPlotAssign(EmptyNS)).o
          [] c = "pfr" -> PfrCell(PfrAssign(EmptyNS)).o
          [] c = "pfr_plot" -> PfrPlotCell(PfrPlotAssign(EmptyNS)).o
          [] c = "pfr_quad" -> PfrQuadCell(PfrQuadAssign(EmptyNS)).o
          [] c = "pfr_odelay" -> PfrOdelayCell(PfrOdelayAssign(EmptyNS)).o
          [] OTHER -> PfrInterpCell(PfrInterpAssign(EmptyNS)).o]

(***************************************************************************)
(* C1.  The CSTR residual has exactly one root, the closed form            *)
(* Fa0 / (v0 + V k), and fsolve from the guess 1.0 returns it.             *)
(***************************************************************************)
\* Fa0 / (v0 + V k) for k = 0.23, Fa0 = 1.0, v0 = 2.5, V = 10.
CstrClosedForm == FDiv(Flt(1), 2500000 + FMul(Flt(10), 230000))

\* The globals func reads, as the fsolve cell binds them.
CstrNS == CstrFsolveAssign(EmptyNS)

\* The namespace holds the CSTR problem: func is the CSTR residual and the
\* globals it reads have the example's values.
CstrProblem ==
    /\ ns.defs["func"] = "func_cstr"
    /\ \A x \in {"k", "Fa0", "v0", "V"} : ns.val[x] = CstrNS.val[x]

\* Half-width, in steps of 0.25 mol/L, of the range of concentrations over
\* which the residual's sign is examined, and the half-width, in units of
\* the float resolution, of the band around the closed form examined point
\* by point.
CoarseHalf == 8
FineHalf == 30

CoarseGrid == {i * 250000 : i \in (-CoarseHalf)..CoarseHalf}
FineGrid == {CstrClosedForm + i : i \in (-FineHalf)..FineHalf}

\* The residual is positive below the closed form and negative above it
\* (beyond the tolerance), and changes sign exactly once in between.
CstrOneRoot ==
    /\ CstrNS.val["k"] = Float(230000) /\ CstrNS.val["Fa0"] = Float(Flt(1))
    /\ CstrNS.val["v0"] = Float(2500000) /\ CstrNS.val["V"] = Float(Flt(10))
    /\ \A Ca \in CoarseGrid \cup FineGrid :
          /\ Ca < CstrClosedForm - (CstrClosedForm \div 10000)
                => func_cstr(CstrNS, Ca) > 0
          /\ Ca > CstrClosedForm + (CstrClosedForm \div 10000)
                => func_cstr(CstrNS, Ca) < 0
    /\ Cardinality({Ca \in FineGrid :
                      /\ func_cstr(CstrNS, Ca) > 0
                      /\ func_cstr(CstrNS, Ca + 1) <= 0}) = 1
    /\ \A Ca \in FineGrid :
          ~ (func_cstr(CstrNS, Ca) <= 0 /\ func_cstr(CstrNS, Ca + 1) > 0)

\* C1: with the globals of the fsolve cell the residual has one root,
\* within 1e-4 (relative) of Fa0 / (v0 + V k), which is 0.2083 to four
\* decimals; what the fsolve cell returned is within 1e-4 of that closed
\* form and of the value the algebra cell computed, and prints the same to
\* three decimals.
C1_CstrRootIsClosedForm ==
    /\ CstrOneRoot
    /\ RoundTo(CstrClosedForm, 100) = 208300
    /\ Ok("cstr_fsolve") =>
          /\ Close(out["cstr_fsolve"].r[1], CstrClosedForm, 10000)
          /\ CstrProblem =>
                Abs(func_cstr(ns, out["cstr_fsolve"].r[1])) <= 10
    /\ Ran("cstr_fsolve") /\ Ran("cstr_algebra") =>
          /\ Ok("cstr_fsolve") /\ Ok("cstr_algebra")
          /\ Close(out["cstr_fsolve"].r[1], out["cstr_algebra"].r[1], 10000)
          /\ RoundTo(out["cstr_fsolve"].r[1], 1000) = out["cstr_algebra"].p[1]

\* Both CSTR cells have run and the namespace still holds the problem.
C1_Witness ==
    /\ Ok("cstr_fsolve") /\ Ok("cstr_algebra")
    /\ CstrProblem

(***************************************************************************)
(* C2.  Re-invoking a solver cell gives the same output.                   *)
(***************************************************************************)
SolverCells ==
    {"cstr_fsolve", "batch", "batch_plot", "pfr", "pfr_plot", "pfr_quad",
     "pfr_odelay", "pfr_interp"}

\* C2: once a solver cell has produced an output, no later step of the
\* notebook changes it: a re-run of the cell, whatever ran in between,
\* yields the identical output.
C2_RerunSameOutput ==
    [][\A c \in SolverCells : Ran(c) => out'[c] = out[c]]_vars

\* A solver cell has been run three times in a row.
C2_Witness ==
    /\ execution_count = 3
    /\ \E c \in SolverCells : Ok(c) /\ \A d \in Cells \ {c} : ~ Ran(d)

(***************************************************************************)
(* C3.  No state is shared across the examples.                            *)
(***************************************************************************)
\* C3: every cell runs to its end in a fresh kernel (it binds every name it
\* reads), and whatever cells ran before it, in whatever order, what it
\* shows is what it shows in a fresh kernel.
C3_NoSharedState ==
    /\ \A c \in Cells : FreshOut[c].st = "ok"
    /\ \A c \in Cells : Ran(c) => out[c] = FreshOut[c]

\* The batch cell ran after the uncertainty cell had left k uncertain.
C3_Witness ==
    /\ execution_count = 2
    /\ Ok("cstr_uncertainty") /\ Ok("batch")
    /\ ns.val["k"].t = "float"
    /\ ns.val["Cae"].t = "ufloat"

(***************************************************************************)
(* C4.  The event stops the integration at its first zero crossing.        *)
(***************************************************************************)
\* C4: the trace the event-terminated integration returns starts at
\* Fa = 30 and is shorter than Vspan; every point before the last is a grid
\* point of linspace(0, 200), in order, with Fa > Fa_Exit = 3.0; the last
\* point lies strictly between the last grid point kept and the next one,
\* Fa there is Fa_Exit (to 1e-5 mol/min), and it is not the grid's end 200.
PfrGrid == linspace(0, Flt(200))

C4_StopsAtFirstCrossing ==
    Ok("pfr_odelay") =>
        LET V == out["pfr_odelay"].r
            F == ns.val["F"].a
            m == Len(V)
        IN  /\ Len(F) = m /\ m >= 2 /\ m < NUM
            /\ F[1] = Flt(30)
            /\ \A i \in 1..(m - 1) :
                  /\ V[i] = PfrGrid[i]
                  /\ F[i] > Flt(3)
            /\ V[m - 1] < V[m] /\ V[m] < PfrGrid[m]
            /\ Abs(F[m] - Flt(3)) <= 10
            /\ V[m] # Flt(200)
            /\ out["pfr_odelay"].p = <<V[m]>>
            /\ ns.val["TE"].a = <<V[m]>> /\ ns.val["YE"].a = <<F[m]>>

\* The event cell has run and its trace ends off the grid.
C4_Witness ==
    /\ Ok("pfr_odelay")
    /\ Len(out["pfr_odelay"].r) = 26
    /\ Last(out["pfr_odelay"].r) > Flt(100)

(***************************************************************************)
(* C5.  The three strategies for the inverse PFR problem agree.            *)
(***************************************************************************)
InverseCells == {"pfr_quad", "pfr_odelay", "pfr_interp"}

\* The volume a strategy's cell found.
Volume(c) == Last(out[c].r)

\* C5: each of the quadrature, event and interpolation cells that has run
\* has found a volume, and any two of these volumes differ by at most
\* 0.01 L.
C5_StrategiesAgree ==
    /\ \A c \in InverseCells : Ran(c) => Ok(c) /\ out[c].ier = 1
    /\ \A c, d \in InverseCells :
          Ok(c) /\ Ok(d) => Abs(Volume(c) - Volume(d)) <= 10000

\* All three strategies have run.
C5_Witness == \A c \in InverseCells : Ok(c)

(***************************************************************************)
(* C6.  The volume is 100.11 L, the zero of the quadrature residual.       *)
(***************************************************************************)
\* The globals func reads, as the quadrature cell binds them.
QuadNS == PfrQuadAssign(EmptyNS)

\* The namespace holds the quadrature problem.
QuadProblem ==
    /\ \A f \in {"func", "integrand1", "integrand2"} :
          ns.defs[f] = QuadNS.defs[f]
    /\ \A x \in {"k", "nu", "Fa0", "Fa"} : ns.val[x] = QuadNS.val[x]

\* Volumes, 25 L apart, at which the residual's sign is examined.
VolumeSteps == 8

\* The residual is negative up to 100 L and positive from 125 L on.
QuadOneRoot ==
    /\ QuadNS.val["k"] = Float(230000) /\ QuadNS.val["nu"] = Float(Flt(10))
    /\ QuadNS.val["Fa0"] = Float(Flt(30)) /\ QuadNS.val["Fa"] = Float(Flt(3))
    /\ \A i \in 0..VolumeSteps :
          /\ i <= 4 => func_quad(QuadNS, Flt(25 * i)) < 0
          /\ i >= 5 => func_quad(QuadNS, Flt(25 * i)) > 0

\* C6: the volume the quadrature cell finds is within 0.1 L of 100.11 L and
\* prints as 100.11; the residual func is zero there, negative 0.001 L
\* below it and positive 0.001 L above it, and over 0..200 L it is negative
\* up to 100 L and positive from 125 L on.
C6_VolumeIsResidualZero ==
    /\ QuadOneRoot
    /\ Ok("pfr_quad") =>
          LET V == out["pfr_quad"].r[1]
          IN  /\ Abs(V - 100110000) <= 100000
              /\ out["pfr_quad"].p = <<100110000>>
              /\ QuadProblem =>
                    /\ func_quad(ns, V) = 0
                    /\ func_quad(ns, V - 1000) < 0
                    /\ func_quad(ns, V + 1000) > 0

\* The quadrature cell has just run.
C6_Witness == Ok("pfr_quad") /\ QuadProblem /\ ns.val["sol"].t = "array"

(***************************************************************************)
(* C7.  The batch reactor after one hour matches Ca0 exp(-k).              *)
(***************************************************************************)
\* Ca0 exp(-k t) for Ca0 = 2.0, k = 0.23.
BatchAnalytic(t) == FMul(2000000, ExpNeg(FMul(230000, t)))

BatchExit == BatchAnalytic(Flt(1))

\* C7: the last entry of the batch cell's solution is within 1e-3
\* (relative) of Ca0 exp(-k 1), which is 1.589 to three decimals; the cell
\* prints that last entry.
C7_BatchMatchesAnalytic ==
    Ok("batch") =>
        /\ Close(Last(out["batch"].r), BatchExit, 1000)
        /\ RoundTo(BatchExit, 1000) = 1589000
        /\ out["batch"].p[3] = Last(out["batch"].r)

\* The batch cell has run and printed a concentration below Ca0.
C7_Witness == Ok("batch") /\ out["batch"].p[3] < 2000000 /\ out["batch"].ier = 1

(***************************************************************************)
(* C8.  The 100 L PFR's exit concentration matches Ca0 exp(-k V / v0).     *)
(***************************************************************************)
\* Fa0 exp(-k V / v0) for Fa0 = 30, k = 0.23, v0 = 10.
PfrAnalytic(V) == FMul(Flt(30), ExpNeg(FDiv(FMul(230000, V), Flt(10))))

PfrExit == FDiv(PfrAnalytic(Flt(100)), Flt(10))

\* C8: sol[-1, 0] / v0 of the PFR cell is within 1e-3 (relative) of
\* Ca0 exp(-k V / v0) at V = 100, which is 0.3008 to four decimals, and the
\* cell prints 0.3008.
C8_PfrMatchesAnalytic ==
    Ok("pfr") =>
        /\ Close(FDiv(Last(out["pfr"].r), Flt(10)), PfrExit, 1000)
        /\ RoundTo(PfrExit, 100) = 300800
        /\ out["pfr"].p = <<300800>>

\* The PFR cell has run and bound Fa_exit to the last row.
C8_Witness ==
    /\ Ok("pfr") /\ out["pfr"].ier = 1
    /\ ns.val["Fa_exit"] = Float(Last(out["pfr"].r))

(***************************************************************************)
(* C9.  The uncertainty of k propagates linearly to Cae.                   *)
(***************************************************************************)
\* Fa0 V / (v0 + V k)^2 * 0.10 for k = 0.23, Fa0 = 1.0, v0 = 2.5, V = 10.
CstrSigma ==
    FMul(FDiv(FMul(Flt(1), Flt(10)),
              FMul(2500000 + FMul(Flt(10), 230000),
                   2500000 + FMul(Flt(10), 230000))),
         100000)

\* C9: the standard deviation of Cae is |dCa_exit/dk| sigma_k (to the
\* resolution of the arithmetic), which is within 10% of 0.04; its nominal
\* value is the closed form Fa0 / (v0 + V k); the cell prints 0.21+/-0.04.
C9_UncertaintyPropagates ==
    Ok("cstr_uncertainty") =>
        LET Cae == out["cstr_uncertainty"].r
        IN  /\ Abs(Cae[2] - CstrSigma) <= 2
            /\ Abs(Cae[2] - 40000) <= 4000
            /\ Cae[1] = CstrClosedForm
            /\ out["cstr_uncertainty"].p = <<210000, 40000>>

\* The uncertainty cell has run and Cae carries a standard deviation.
C9_Witness ==
    /\ Ok("cstr_uncertainty")
    /\ ns.val["Cae"].t = "ufloat" /\ ns.val["Cae"].s > 0

(***************************************************************************)
(* C10.  odeint returns one row per evaluation point, in their order.      *)
(***************************************************************************)
\* The evaluation points of the batch cell and the analytic solution there.
BatchGrid == linspace(0, Flt(1))
BatchTable == [i \in 1..NUM |-> BatchAnalytic(BatchGrid[i])]
PfrTable == <<Flt(30), PfrAnalytic(Flt(100))>>

\* C10: the batch cell's solution has one row for each of the 50 points of
\* tspan = linspace(0, 1); row 0 is y0 = Ca0, and row i is the solution at
\* point i of tspan (within 1e-3 of Ca0 exp(-k t_i)), so the last row is the
\* value at t = 1; the cell prints the shape (50, 1).  The PFR cell's
\* solution has one row for each of the two points of Vspan = [0, 100]; row
\* 0 is y0 = Ca0 v0 and the last row is the solution at V = 100.
C10_OneRowPerPoint ==
    /\ Ok("batch") =>
          LET sol == out["batch"].r
              tspan == BatchGrid
          IN  /\ Len(sol) = Len(tspan) /\ Len(sol) = 50
              /\ out["batch"].p[1] = 50 /\ out["batch"].p[2] = 1
              /\ sol[1] = 2000000
              /\ tspan[Len(tspan)] = Flt(1)
              /\ \A i \in 1..Len(sol) :
                    Close(sol[i], BatchTable[i], 1000)
              /\ \A i \in 1..(Len(sol) - 1) : sol[i + 1] < sol[i]
    /\ Ok("pfr") =>
          LET sol == out["pfr"].r
          IN  /\ Len(sol) = 2
              /\ sol[1] = PfrTable[1]
              /\ Close(sol[2], PfrTable[2], 1000)

\* Both the batch cell and the PFR cell have run.
C10_Witness ==
    /\ Ok("batch") /\ Ok("pfr")
    /\ Len(out["batch"].r) = NUM /\ Len(out["pfr"].r) = 2

(***************************************************************************)
(* C11.  A root-finder that did not converge is not printed as a solution. *)
(***************************************************************************)
FsolveCells == {"cstr_fsolve", "pfr_quad", "pfr_interp"}

OdeintCells == {"batch", "pfr"}

BatchCells == {"batch", "batch_plot"}

\* C13: the solution the batch cells compute and plot starts at Ca0 = 2.0
\* and, at every pair of successive points of tspan, 0 < Ca[i+1] < Ca[i].
C13_BatchDecreasesStaysPositive ==
    \A c \in BatchCells :
        Ok(c) =>
            LET Ca == out[c].r
            IN  /\ Len(Ca) = NUM
                /\ Ca[1] = Flt(2)
                /\ \A i \in 1..(Len(Ca) - 1) : 0 < Ca[i + 1] /\ Ca[i + 1] < Ca[i]

\* The plotting cell has run and shown the shapes of tspan and sol.
C13_Witness ==
    /\ Ok("batch_plot")
    /\ out["batch_plot"].p = <<NUM, NUM, 1>>
    /\ Last(out["batch_plot"].r) < Flt(2)
====
